---- MODULE Spec2Model ----
(***************************************************************************)
(* A model of gept (src/gept.c): the line scanner of main, the handlers of *)
(* @sizeof, @embed, @include and of the block directives @bash, @python    *)
(* and @perl, and the pipe round trip with the child interpreter.          *)
(*                                                                         *)
(* Text is a sequence of byte values (0..255).  The template, the files    *)
(* and the output accumulator are all such sequences.                      *)
(***************************************************************************)
EXTENDS Integers, Sequences, FiniteSets, TLC

(***************************************************************************)
(* Characters and literals                                                 *)
(***************************************************************************)
Lower == <<"a","b","c","d","e","f","g","h","i","j","k","l","m",
           "n","o","p","q","r","s","t","u","v","w","x","y","z">>
Upper == <<"A","B","C","D","E","F","G","H","I","J","K","L","M",
           "N","O","P","Q","R","S","T","U","V","W","X","Y","Z">>
Digit == <<"0","1","2","3","4","5","6","7","8","9">>

Punct == ("\n" :> 10) @@ ("\t" :> 9) @@ (" " :> 32) @@ ("@" :> 64) @@
         ("(" :> 40) @@ (")" :> 41) @@ ("," :> 44) @@ ("-" :> 45)

\* The byte value of a one-character string.
Ord(c) ==
    IF c \in DOMAIN Punct THEN Punct[c]
    ELSE IF \E i \in 1..26 : Lower[i] = c THEN 96 + (CHOOSE i \in 1..26 : Lower[i] = c)
    ELSE IF \E i \in 1..26 : Upper[i] = c THEN 64 + (CHOOSE i \in 1..26 : Upper[i] = c)
    ELSE 47 + (CHOOSE i \in 1..10 : Digit[i] = c)

\* A literal: the bytes of a tuple of one-character strings.
S(t) == [i \in 1..Len(t) |-> Ord(t[i])]

NL == Ord("\n")
SP == Ord(" ")

\* The first n bytes of s, and s without its first n bytes.
Take(s, n) == SubSeq(s, 1, n)
Drop(s, n) == SubSeq(s, n + 1, Len(s))

Min(a, b) == IF a < b THEN a ELSE b

(***************************************************************************)
(* hgl_string.h: string views and string builders                          *)
(***************************************************************************)
\* isspace() of the C locale.
IsSpace(c) == c \in {32, 9, 10, 11, 12, 13}

RECURSIVE hgl_sv_ltrim(_)
\* The view without its leading whitespace.
hgl_sv_ltrim(sv) ==
    IF sv # <<>> /\ IsSpace(Head(sv)) THEN hgl_sv_ltrim(Tail(sv)) ELSE sv

\* Does the view begin with the bytes of cstr?
hgl_sv_starts_with(sv, cstr) ==
    Len(sv) >= Len(cstr) /\ Take(sv, Len(cstr)) = cstr

hgl_sv_equals(a, b) == a = b

\* The index of the first byte c of sv, or 0.
IndexOf(sv, c) ==
    IF \E i \in 1..Len(sv) : sv[i] = c
    THEN CHOOSE i \in 1..Len(sv) : sv[i] = c /\ \A j \in 1..(i - 1) : sv[j] # c
    ELSE 0

\* Chops the bytes before the first delimiter c off the view: "chopped" is
\* what was chopped, "sv" the view afterwards, with the delimiter skipped.
hgl_sv_lchop_until(sv, c) ==
    LET i == IndexOf(sv, c) IN
    IF i = 0 THEN [chopped |-> sv, sv |-> <<>>]
    ELSE [chopped |-> Take(sv, i - 1), sv |-> Drop(sv, i)]

\* Chops cstr off the view when the view begins with it.
hgl_sv_starts_with_lchop(sv, cstr) ==
    IF hgl_sv_starts_with(sv, cstr)
    THEN [ok |-> TRUE, sv |-> Drop(sv, Len(cstr))]
    ELSE [ok |-> FALSE, sv |-> sv]

IsDigit(c) == c >= 48 /\ c <= 57

RECURSIVE DigitsValue(_, _)
\* The value of the leading decimal digits of sv, after acc.
DigitsValue(sv, acc) ==
    IF sv # <<>> /\ IsDigit(Head(sv))
    THEN DigitsValue(Tail(sv), 10 * acc + (Head(sv) - 48))
    ELSE acc

RECURSIVE DropDigits(_)
DropDigits(sv) ==
    IF sv # <<>> /\ IsDigit(Head(sv)) THEN DropDigits(Tail(sv)) ELSE sv

\* Chops the leading decimal number off the view.
hgl_sv_lchop_u64(sv) == [value |-> DigitsValue(sv, 0), sv |-> DropDigits(sv)]

\* The builder without its last n bytes.
hgl_sb_rchop(sb, n) == IF n > Len(sb) THEN <<>> ELSE Take(sb, Len(sb) - n)

(***************************************************************************)
(* printf conversions                                                      *)
(***************************************************************************)
RECURSIVE FmtDecimal(_)
\* "%zu": the decimal digits of n.
FmtDecimal(n) ==
    IF n < 10 THEN <<48 + n>> ELSE FmtDecimal(n \div 10) \o <<48 + (n % 10)>>

HexDigit(d) == IF d < 10 THEN 48 + d ELSE 55 + d

\* "0x%02X", the default of --embed-fmt, applied to one byte.
FmtByte(b) == S(<<"0", "x">>) \o <<HexDigit(b \div 16), HexDigit(b % 16)>>

(***************************************************************************)
(* Bounds of the model                                                     *)
(***************************************************************************)
\* SCRATCH_BUFFER_SIZE (128 MiB in the source), scaled down.
ScratchSize == 22
\* The path slot of the scratch buffer (4096 in the source), scaled down.
PathSlot == 4
\* The number of lines of the templates that are enumerated exhaustively.
MaxLines == 2

\* const int64_t n_bytes_per_row = 20;
n_bytes_per_row == 20

(***************************************************************************)
(* The file system the run sees                                            *)
(***************************************************************************)
\* The bytes 1..n.
Ramp(n) == [i \in 1..n |-> i]

\* Regular files, of which b is larger than the scratch buffer, and the
\* special file z, a device that yields bytes without end and has no size.
Disk ==
    { [path |-> S(<<"e">>), special |-> FALSE, data |-> <<>>],
      [path |-> S(<<"f">>), special |-> FALSE, data |-> <<7, 255>>],
      [path |-> S(<<"g">>), special |-> FALSE,
       data |-> S(<<"@","e","m","b","e","d"," ","f","\n","@","e","n","d","\n","z">>)],
      [path |-> S(<<"t">>), special |-> FALSE, data |-> Ramp(n_bytes_per_row)],
      [path |-> S(<<"u">>), special |-> FALSE, data |-> Ramp(n_bytes_per_row + 1)],
      [path |-> S(<<"b">>), special |-> FALSE, data |-> Ramp(ScratchSize + 2)],
      [path |-> S(<<"z">>), special |-> TRUE, data |-> Ramp(ScratchSize + 2)] }

FileExists(path) == \E f \in Disk : f.path = path
FileData(path) == (CHOOSE f \in Disk : f.path = path).data
FileIsSpecial(path) == (CHOOSE f \in Disk : f.path = path).special

\* fseek(fp, 0, SEEK_END); ftell(fp): the size of a regular file, and 0 for
\* a device.
Ftell(path) == IF FileIsSpecial(path) THEN 0 ELSE Len(FileData(path))

(***************************************************************************)
(* The templates and the options of a run                                  *)
(***************************************************************************)
LinePlain    == S(<<"x">>)
LineIndented == S(<<" ","y">>)
LineUnknown  == S(<<"@","u","n","k","n","o","w","n"," ","f","o","o">>)
LineUnknownI == S(<<" ","\t","@","w","h","o">>)
LineBash     == S(<<"@","b","a","s","h">>)
LinePython   == S(<<" ","@","p","y","t","h","o","n">>)
LinePerl     == S(<<"@","p","e","r","l"," ">>)
LineEnd      == S(<<"@","e","n","d">>)
LineEndI     == S(<<" "," ","@","e","n","d">>)
LineEndif    == S(<<"@","e","n","d","i","f">>)
LineEndX     == S(<<"@","e","n","d"," ","x">>)
LineEcho     == S(<<"e","c","h","o"," ","h","i">>)
LineEmbedF   == S(<<"@","e","m","b","e","d"," ","f">>)
LineEmbedF1  == S(<<"@","e","m","b","e","d"," ","f"," ","l","i","m","i","t","(","1",")">>)
LineEmbedF0  == S(<<"@","e","m","b","e","d"," ","f"," ","l","i","m","i","t","(","0",")">>)
LineEmbedE   == S(<<"@","e","m","b","e","d"," ","e">>)
LineEmbedE3  == S(<<"@","e","m","b","e","d"," ","e"," ","l","i","m","i","t","(","3",")">>)
LineEmbedT   == S(<<"@","e","m","b","e","d"," ","t">>)
LineEmbedU   == S(<<"@","e","m","b","e","d"," ","u">>)
LineEmbedM   == S(<<"@","e","m","b","e","d"," ","m">>)
LineEmbedBad == S(<<"@","e","m","b","e","d"," ","f"," ","l","i","m","i","t","(","2">>)
LineEmbedLong == S(<<"@","e","m","b","e","d"," ","l","o","n","g","p","a","t","h">>)
LineEmbedB   == S(<<"@","e","m","b","e","d"," ","b">>)
LineEmbedB99 == S(<<"@","e","m","b","e","d"," ","b"," ","l","i","m","i","t","(","9","9",")">>)
LineEmbedZ2  == S(<<"@","e","m","b","e","d"," ","z"," ","\t","l","i","m","i","t","(","2",")">>)
LineEmbedTab == S(<<"@","e","m","b","e","d","\t","f">>)
LineSizeofx  == S(<<"@","s","i","z","e","o","f","x"," ","f">>)
LineIncludeI == S(<<"\t","@","i","n","c","l","u","d","e"," ","g">>)
LineEmbedI   == S(<<" "," ","@","e","m","b","e","d"," ","f"," ","l","i","m","i","t","(","1",")">>)
LineIncludeG == S(<<"@","i","n","c","l","u","d","e"," ","g">>)
LineIncludeE == S(<<"@","i","n","c","l","u","d","e"," ","e">>)
LineIncludeM == S(<<"@","i","n","c","l","u","d","e"," ","m">>)
LineSizeofF  == S(<<"@","s","i","z","e","o","f"," ","f"," ","r","e","s","t"," ","x">>)
LineSizeofT  == S(<<"@","s","i","z","e","o","f"," ","t">>)
LineSizeofE  == S(<<" ","@","s","i","z","e","o","f"," ","e"," ">>)
LineSizeofM  == S(<<"@","s","i","z","e","o","f"," ","m">>)

\* The lines the short templates are made of.
Lines ==
    { LinePlain, LineUnknown, LineUnknownI, LineBash, LineEnd, LineEndif,
      LineEmbedF, LineEmbedF1, LineEmbedE3, LineEmbedT, LineEmbedU,
      LineIncludeG, LineIncludeM, LineSizeofF, LineSizeofT }

\* Lines that are tried alone, and before and after a line of regular code.
ExtraLines ==
    { LineIndented, LinePython, LinePerl, LineEndI, LineEndX, LineEcho,
      LineEmbedF0, LineEmbedE, LineEmbedM, LineEmbedBad, LineEmbedLong,
      LineIncludeE, LineSizeofE, LineSizeofM,
      LineEmbedB, LineEmbedB99, LineEmbedZ2, LineEmbedTab, LineSizeofx,
      LineIncludeI, LineEmbedI }

RECURSIVE Join(_)
\* The lines, each followed by a newline.
Join(ls) == IF ls = <<>> THEN <<>> ELSE Head(ls) \o <<NL>> \o Join(Tail(ls))

\* Every template of at most MaxLines lines.
ShortTemplates ==
    UNION { { Join(ls) : ls \in [1..n -> Lines] } : n \in 1..MaxLines }

ExtraTemplates ==
    UNION { { Join(<<a>>), Join(<<LinePlain, a>>), Join(<<a, LinePlain>>) } :
            a \in ExtraLines }

\* Longer templates: blocks with a body, closed and followed by more text.
LongTemplates ==
    { Join(<<LineBash, LineEcho, LineEnd>>),
      Join(<<LineBash, LineEcho, LineEnd, LinePlain>>),
      Join(<<LinePlain, LinePython, LineEmbedF, LineBash, LineEndI, LinePlain>>),
      Join(<<LinePerl, LineEcho, LineEndif, LineEnd, LinePlain>>),
      Join(<<LineBash, LineEndX, LineEcho, LineEnd, LinePlain>>),
      Join(<<LineEmbedF, LineBash, LineEcho>>),
      Join(<<LineIncludeG, LineEmbedF0, LinePlain>>) }

\* A template file ends with a newline or without one.
Templates ==
    LET T == ShortTemplates \cup ExtraTemplates \cup LongTemplates
    IN  T \cup { Take(t, Len(t) - 1) : t \in T }

\* The values of --embed-delim that are tried; ", " is the default.
Delims == { S(<<",", " ">>), <<>>, S(<<"-","-","-","-","-">>) }

(***************************************************************************)
(* The state of a run                                                      *)
(***************************************************************************)
VARIABLES
    input,            \* HglStringView input: the template not yet scanned
    output,           \* HglStringBuilder output: the output accumulator
    scratch_buf,      \* static uint8_t scratch_buf[SCRATCH_BUFFER_SIZE]
    opt_embed_delim,  \* *opt_embed_delim
    pc,               \* where main is
    exit_status,      \* the exit status of gept, -1 while it runs
    error,            \* the diagnostic of the failed assertion: [kind, text]
    stdout,           \* what gept has written to its standard output
    directive,        \* the opening token of the block being expanded
    source_code,      \* HglStringBuilder source_code: the script body
    n_written_bytes,  \* how much of source_code write() has passed on
    fds,              \* the pipe ends the parent holds open
    pipe_in,          \* pipes[0]: the bytes in flight to the child
    pipe_out,         \* pipes[1]: the bytes in flight from the child
    child,            \* the child process of the block being expanded
    wstatus           \* int wstatus, as waitpid sets it

vars == << input, output, scratch_buf, opt_embed_delim, pc, exit_status,
           error, stdout, directive, source_code, n_written_bytes, fds,
           pipe_in, pipe_out, child, wstatus >>

\* The variables of the block directives' round trip.
bridge == << directive, source_code, n_written_bytes, fds, pipe_in,
             pipe_out, child, wstatus >>

NoError == [kind |-> "none", text |-> <<>>]

\* No child: "state" is "none"; then "forked", "running", "exited" (not yet
\* waited for) and "reaped".  "stdin" is what the child has read, "todo"
\* what it has yet to write of its output "out", "fds" the pipe ends it
\* holds open; "writing" says that it is inside a write that the full pipe
\* blocks.  A child that is a "reader" reads its input up to the end of
\* input before it exits; another child may exit at any time.
NoChild == [state |-> "none", stdin |-> <<>>, out |-> <<>>, todo |-> <<>>,
            writing |-> FALSE, reader |-> FALSE, fds |-> {}]

Init ==
    /\ input \in Templates
    /\ opt_embed_delim \in Delims
    /\ output = <<>>
    /\ scratch_buf = [i \in 1..ScratchSize |-> 0]
    /\ pc = "scan"
    /\ exit_status = -1
    /\ error = NoError
    /\ stdout = <<>>
    /\ directive = <<>>
    /\ source_code = <<>>
    /\ n_written_bytes = 0
    /\ fds = {}
    /\ pipe_in = <<>>
    /\ pipe_out = <<>>
    /\ child = NoChild
    /\ wstatus = 0

(***************************************************************************)
(* The scanner: while (input.length > 0)                                   *)
(***************************************************************************)
KwSizeof  == S(<<"@","s","i","z","e","o","f">>)
KwEmbed   == S(<<"@","e","m","b","e","d">>)
KwInclude == S(<<"@","i","n","c","l","u","d","e">>)
KwBash    == S(<<"@","b","a","s","h">>)
KwPerl    == S(<<"@","p","e","r","l">>)
KwPython  == S(<<"@","p","y","t","h","o","n">>)
KwEnd     == S(<<"@","e","n","d">>)
Marker    == S(<<"@">>)

\* The next line, its tokens taken without the left trim.
NextLine_NoTrim(in) ==
    LET c == hgl_sv_lchop_until(in, NL)
    IN  [line |-> c.chopped, tokens |-> c.chopped, input |-> c.sv]

\* line = hgl_sv_lchop_until(&input, '\n'); tokens = hgl_sv_ltrim(line);
NextLine(in) ==
    LET c == hgl_sv_lchop_until(in, NL)
    IN  [line |-> c.chopped, tokens |-> hgl_sv_ltrim(c.chopped), input |-> c.sv]

\* directive = hgl_sv_lchop_until(&tokens, ' '), and the tokens left.
SplitDirective(tokens) ==
    LET c == hgl_sv_lchop_until(tokens, SP)
    IN  [directive |-> c.chopped, tokens |-> c.sv]

\* The line is regular code: it does not begin with the marker.
IsRegular(tokens) == ~hgl_sv_starts_with(tokens, Marker)

IsBlockDirective(d) ==
    \/ hgl_sv_equals(d, KwBash)
    \/ hgl_sv_equals(d, KwPerl)
    \/ hgl_sv_equals(d, KwPython)

\* GEPT_ASSERT / GEPT_ASSERT_LINE failing: the diagnostic, then exit(1).
Fail(kind, text) ==
    /\ pc' = "failed"
    /\ exit_status' = 1
    /\ error' = [kind |-> kind, text |-> text]

\* memcpy(scratch_buf, path.start, path.length); scratch_buf[path.length] = 0
StorePath(buf, path) ==
    [i \in 1..Len(buf) |->
        IF i <= Len(path) THEN path[i]
        ELSE IF i = Len(path) + 1 THEN 0 ELSE buf[i]]

\* (char *) scratch_buf: the bytes before the first NUL.
CString(buf) == Take(buf, IndexOf(buf, 0) - 1)

\* Regular code: the line is appended to the output, with a newline.
CopyLine ==
    /\ pc = "scan"
    /\ input # <<>>
    /\ LET l == NextLine(input) IN
        /\ IsRegular(l.tokens)
        /\ output' = output \o l.line \o <<NL>>
        /\ input' = l.input
    /\ UNCHANGED << scratch_buf, opt_embed_delim, pc, exit_status, error,
                    stdout, bridge >>

\* A line that begins with the marker and matches none of the six keywords:
\* no handler runs and the loop goes on to the next line.
OtherDirective ==
    /\ pc = "scan"
    /\ input # <<>>
    /\ LET l == NextLine(input)
           d == SplitDirective(l.tokens).directive
       IN
        /\ ~IsRegular(l.tokens)
        /\ ~hgl_sv_equals(d, KwSizeof)
        /\ ~hgl_sv_equals(d, KwEmbed)
        /\ ~hgl_sv_equals(d, KwInclude)
        /\ ~IsBlockDirective(d)
        /\ input' = l.input
    /\ UNCHANGED << output, scratch_buf, opt_embed_delim, pc, exit_status, error,
                    stdout, bridge >>

(***************************************************************************)
(* @sizeof <file>                                                          *)
(***************************************************************************)
Indent == S(<<" "," "," "," ">>)

\* The space after the size left out.
SizeofText_NoSpace(size, tokens) ==
    Indent \o FmtDecimal(size) \o tokens \o <<NL>>

\* hgl_sb_append_fmt(&output, "    %zu", size), then ' ', the tokens left
\* on the line and '\n'.
SizeofText(size, tokens) ==
    Indent \o FmtDecimal(size) \o <<SP>> \o tokens \o <<NL>>

\* fstat(fd, &sb); sb.st_size: the size of a regular file, 0 for a device.
StatSize(path) == IF FileIsSpecial(path) THEN 0 ELSE Len(FileData(path))

SizeofDirective ==
    /\ pc = "scan"
    /\ input # <<>>
    /\ LET l == NextLine(input)
           d == SplitDirective(l.tokens)
           p == hgl_sv_lchop_until(d.tokens, SP)
           path == p.chopped
           buf == StorePath(scratch_buf, path)
       IN
        /\ ~IsRegular(l.tokens)
        /\ hgl_sv_equals(d.directive, KwSizeof)
        /\ input' = l.input
        /\ IF ~(Len(path) < PathSlot)
           THEN /\ Fail("PathTooLong", l.line)
                /\ UNCHANGED << output, scratch_buf >>
           ELSE IF ~FileExists(CString(buf))
           THEN /\ Fail("OpenFailed", l.line)
                /\ scratch_buf' = buf
                /\ UNCHANGED output
           ELSE /\ output' = output \o SizeofText(StatSize(CString(buf)), p.sv)
                /\ scratch_buf' = buf
                /\ UNCHANGED << pc, exit_status, error >>
    /\ UNCHANGED << opt_embed_delim, stdout, bridge >>

(***************************************************************************)
(* @embed <file> [limit(N)]                                                *)
(***************************************************************************)
KwLimit == S(<<"l","i","m","i","t","(">>)
KwClose == S(<<")">>)

\* The limit(N) attribute: "limit" is N, or the size of the scratch buffer
\* without the attribute; "ok" is FALSE when the ')' is missing.
EmbedLimit(tokens) ==
    LET t == hgl_sv_ltrim(tokens)
        a == hgl_sv_starts_with_lchop(t, KwLimit)
        n == hgl_sv_lchop_u64(a.sv)
    IN  IF a.ok
        THEN [limit |-> n.value, ok |-> hgl_sv_starts_with_lchop(n.sv, KwClose).ok]
        ELSE [limit |-> ScratchSize, ok |-> TRUE]

\* The number of bytes to embed, from what ftell reports at the end of the
\* file and the limit.
EmbedFileSize(told, limit) ==
    IF told <= 0 THEN limit ELSE IF told < limit THEN told ELSE limit

\* fread(scratch_buf, 1, file_size, fp): the bytes read replace the first
\* bytes of the buffer; the rest of the buffer is left as it was.
Fread(buf, data, file_size) ==
    LET n == Min(file_size, Len(data))
    IN  [i \in 1..Len(buf) |-> IF i <= n THEN data[i] ELSE buf[i]]

RECURSIVE EmbedRow(_, _, _, _, _)
\* The inner loop of a row, from column i on: a formatted byte and the
\* delimiter for every byte of the row below file_size.
EmbedRow(buf, file_size, delim, row, i) ==
    IF i < n_bytes_per_row /\ row * n_bytes_per_row + i < file_size
    THEN FmtByte(buf[row * n_bytes_per_row + i + 1]) \o delim
         \o EmbedRow(buf, file_size, delim, row, i + 1)
    ELSE <<>>

RECURSIVE EmbedRows(_, _, _, _)
\* The outer loop, from row on: each row is indented and ends with '\n'.
EmbedRows(buf, file_size, delim, row) ==
    IF row < file_size \div n_bytes_per_row + 1
    THEN Indent \o EmbedRow(buf, file_size, delim, row, 0) \o <<NL>>
         \o EmbedRows(buf, file_size, delim, row + 1)
    ELSE <<>>

\* The output after the rows are appended, 1 + strlen(delim) bytes are
\* chopped off its end and a '\n' is appended.
EmbedOutput(out, buf, file_size, delim) ==
    hgl_sb_rchop(out \o EmbedRows(buf, file_size, delim, 0), 1 + Len(delim))
    \o <<NL>>

SIGSEGV == 11

\* The bytes that may be found behind the end of the scratch buffer.
OverrunBytes == {0, 255}

\* What the loop indexes when file_size is larger than the buffer: the
\* buffer, and behind it either what fread has written there or other
\* bytes.
Overrun(buf, data, file_size, junk) ==
    [i \in 1..file_size |->
        IF i <= Len(buf) THEN buf[i]
        ELSE IF junk = -1 /\ i <= Len(data) THEN data[i]
        ELSE IF junk = -1 THEN 0 ELSE junk]

EmbedDirective ==
    /\ pc = "scan"
    /\ input # <<>>
    /\ LET l == NextLine(input)
           d == SplitDirective(l.tokens)
           p == hgl_sv_lchop_until(d.tokens, SP)
           path == p.chopped
           buf == StorePath(scratch_buf, path)
           lim == EmbedLimit(p.sv)
       IN
        /\ ~IsRegular(l.tokens)
        /\ hgl_sv_equals(d.directive, KwEmbed)
        /\ input' = l.input
        /\ IF ~(Len(path) < PathSlot)
           THEN /\ Fail("PathTooLong", l.line)
                /\ UNCHANGED << output, scratch_buf >>
           ELSE IF ~lim.ok
           THEN /\ Fail("ExpectedParen", l.line)
                /\ scratch_buf' = buf
                /\ UNCHANGED output
           ELSE IF ~FileExists(CString(buf))
           THEN /\ Fail("OpenFailed", l.line)
                /\ scratch_buf' = buf
                /\ UNCHANGED output
           ELSE LET data == FileData(CString(buf))
                    file_size == EmbedFileSize(Ftell(CString(buf)), lim.limit)
                    read == Fread(buf, data, file_size)
                IN  /\ scratch_buf' = read
                    /\ IF file_size <= ScratchSize
                       THEN /\ output' = EmbedOutput(output, read, file_size,
                                                     opt_embed_delim)
                            /\ UNCHANGED << pc, exit_status, error >>
                       \* fread and the loop run over the end of scratch_buf:
                       \* undefined behaviour.  The run is ended by SIGSEGV,
                       \* or goes on with what is behind the buffer.
                       ELSE \/ /\ pc' = "killed"
                               /\ exit_status' = 128 + SIGSEGV
                               /\ UNCHANGED << output, error >>
                            \/ /\ \E junk \in OverrunBytes \cup {-1} :
                                    output' = EmbedOutput(output,
                                        Overrun(read, data, file_size, junk),
                                        file_size, opt_embed_delim)
                               /\ UNCHANGED << pc, exit_status, error >>
    /\ UNCHANGED << opt_embed_delim, stdout, bridge >>

(***************************************************************************)
(* @include <file>                                                         *)
(***************************************************************************)
\* hgl_sb_append_file(&sb, path): the builder with the bytes of the file
\* appended and 0, or the builder as it was and -1 when the file cannot be
\* read.
hgl_sb_append_file(sb, path) ==
    IF FileExists(path)
    THEN [sb |-> sb \o FileData(path), err |-> 0]
    ELSE [sb |-> sb, err |-> -1]

\* A newline appended after the file, as after a copied line.
IncludeOutput_Newline(out, buf) ==
    hgl_sb_append_file(out, CString(buf)).sb \o <<NL>>

\* hgl_sb_append_file(&output, (char *)scratch_buf); the value it returns
\* is not looked at.
IncludeOutput(out, buf) == hgl_sb_append_file(out, CString(buf)).sb

IncludeDirective ==
    /\ pc = "scan"
    /\ input # <<>>
    /\ LET l == NextLine(input)
           d == SplitDirective(l.tokens)
           p == hgl_sv_lchop_until(d.tokens, SP)
           path == p.chopped
           buf == StorePath(scratch_buf, path)
       IN
        /\ ~IsRegular(l.tokens)
        /\ hgl_sv_equals(d.directive, KwInclude)
        /\ input' = l.input
        /\ IF ~(Len(path) < PathSlot)
           THEN /\ Fail("PathTooLong", l.line)
                /\ UNCHANGED << output, scratch_buf >>
           ELSE /\ output' = IncludeOutput(output, buf)
                /\ scratch_buf' = buf
                /\ UNCHANGED << pc, exit_status, error >>
    /\ UNCHANGED << opt_embed_delim, stdout, bridge >>

(***************************************************************************)
(* @bash, @python, @perl ... @end: collecting the script body              *)
(***************************************************************************)
\* Does the line end the block?
IsTerminator(tokens) == hgl_sv_starts_with(tokens, KwEnd)

RECURSIVE CollectBody(_, _)
\* The inner while loop: lines are appended to the body until the input is
\* used up or a line ends the block.  "input" is what is left of the
\* template after the loop.
CollectBody(in, body) ==
    IF in = <<>> THEN [source_code |-> body, input |-> in]
    ELSE LET l == NextLine(in) IN
         IF IsTerminator(l.tokens)
         THEN [source_code |-> body, input |-> l.input]
         ELSE CollectBody(l.input, body \o l.line \o <<NL>>)

\* The assertion left out.
BlockTerminated_Unchecked(in) == TRUE

\* GEPT_ASSERT(input.length > 0, "Missing terminating `@end` token ...")
BlockTerminated(in) == Len(in) > 0

BlockCollect ==
    /\ pc = "scan"
    /\ input # <<>>
    /\ LET l == NextLine(input)
           d == SplitDirective(l.tokens).directive
           c == CollectBody(l.input, <<>>)
       IN
        /\ ~IsRegular(l.tokens)
        /\ IsBlockDirective(d)
        /\ directive' = d
        /\ source_code' = c.source_code
        /\ input' = c.input
        /\ IF BlockTerminated(c.input)
           THEN /\ pc' = "fork"
                /\ UNCHANGED << exit_status, error >>
           ELSE Fail("MissingEnd", d)
    /\ UNCHANGED << output, scratch_buf, opt_embed_delim, stdout,
                    n_written_bytes, fds, pipe_in, pipe_out, child, wstatus >>

(***************************************************************************)
(* The round trip with the child interpreter                               *)
(***************************************************************************)
\* The capacity of a pipe.
PipeCap == 4
\* The exit codes and the signals a child may end with.
MaxExitCode == 2
SIGKILL == 9
SIGPIPE == 13

\* What the interpreter may write to its standard output.
ChildOutputs ==
    { <<>>,
      S(<<"h","i","\n">>),
      S(<<"@","e","n","d","\n">>),
      S(<<"l","o","n","g"," ","o","u","t","p","u","t","\n">>) }

PipeEnds == {"in_r", "in_w", "out_r", "out_w"}

\* W_EXITCODE(ret, sig), WEXITSTATUS(status)
W_EXITCODE(ret, sig) == ret * 256 + sig
WEXITSTATUS(status) == (status \div 256) % 256

\* pipe(pipes[0]); pipe(pipes[1]); fork(): the child holds a copy of every
\* pipe end.
Fork ==
    /\ pc = "fork"
    /\ fds' = PipeEnds
    /\ pipe_in' = <<>>
    /\ pipe_out' = <<>>
    /\ n_written_bytes' = 0
    /\ child' = [state |-> "forked", stdin |-> <<>>, out |-> <<>>, todo |-> <<>>,
                 writing |-> FALSE, reader |-> FALSE, fds |-> PipeEnds]
    /\ pc' = "close_unused"
    /\ UNCHANGED << input, output, scratch_buf, opt_embed_delim, exit_status,
                    error, stdout, directive, source_code, wstatus >>

\* close(pipes[0][0]); close(pipes[1][1]);
ParentCloseUnused ==
    /\ pc = "close_unused"
    /\ fds' = fds \ {"in_r", "out_w"}
    /\ pc' = "write"
    /\ UNCHANGED << input, output, scratch_buf, opt_embed_delim, exit_status,
                    error, stdout, directive, source_code, n_written_bytes,
                    pipe_in, pipe_out, child, wstatus >>

\* write(pipes[0][1], source_code.cstr, source_code.length), a blocking
\* write: it passes on what the pipe has room for and returns once all of
\* the body is passed on.  Writing to a pipe that nobody can read any more
\* raises SIGPIPE, which ends gept.
ParentWrite ==
    /\ pc = "write"
    /\ LET left == Drop(source_code, n_written_bytes)
           room == PipeCap - Len(pipe_in)
           n == Min(room, Len(left))
       IN
        IF left = <<>>
        THEN /\ pc' = "close_in"
             /\ UNCHANGED << pipe_in, n_written_bytes, exit_status >>
        ELSE IF "in_r" \notin child.fds
        THEN /\ pc' = "killed"
             /\ exit_status' = 128 + SIGPIPE
             /\ UNCHANGED << pipe_in, n_written_bytes >>
        ELSE /\ n > 0
             /\ pipe_in' = pipe_in \o Take(left, n)
             /\ n_written_bytes' = n_written_bytes + n
             /\ UNCHANGED << pc, exit_status >>
    /\ UNCHANGED << input, output, scratch_buf, opt_embed_delim, error, stdout,
                    directive, source_code, fds, pipe_out, child, wstatus >>

\* The parent goes on to wait with the write end still open.
ParentCloseIn_NoClose ==
    /\ pc = "close_in"
    /\ pc' = "wait"
    /\ UNCHANGED << input, output, scratch_buf, opt_embed_delim, exit_status,
                    error, stdout, directive, source_code, n_written_bytes,
                    fds, pipe_in, pipe_out, child, wstatus >>

\* close(pipes[0][1]);
ParentCloseIn ==
    /\ pc = "close_in"
    /\ fds' = fds \ {"in_w"}
    /\ pc' = "wait"
    /\ UNCHANGED << input, output, scratch_buf, opt_embed_delim, exit_status,
                    error, stdout, directive, source_code, n_written_bytes,
                    pipe_in, pipe_out, child, wstatus >>

\* The assertion left out.
ChildSucceeded_Unchecked(status) == TRUE

\* GEPT_ASSERT(WEXITSTATUS(wstatus) == 0, ...)
ChildSucceeded(status) == WEXITSTATUS(status) = 0

\* waitpid(pid, &wstatus, 0) returns once the child has ended; then the
\* assertion on the exit status.
ParentWait ==
    /\ pc = "wait"
    /\ child.state = "exited"
    /\ child' = [child EXCEPT !.state = "reaped"]
    /\ IF ChildSucceeded(wstatus)
       THEN /\ pc' = "read"
            /\ UNCHANGED << exit_status, error >>
       ELSE Fail("ChildExit", FmtDecimal(WEXITSTATUS(wstatus)))
    /\ UNCHANGED << input, output, scratch_buf, opt_embed_delim, stdout,
                    directive, source_code, n_written_bytes, fds, pipe_in,
                    pipe_out, wstatus >>

\* read(pipes[1][0], scratch_buf, sizeof(scratch_buf) - 1): how many bytes
\* one read takes out of the pipe.
ReadCount(pipe) == Min(Len(pipe), ScratchSize - 1)

\* The whole buffer appended, whatever the read has returned.
BlockOutput_Buffer(out, buf, n_read_bytes) == out \o buf

\* hgl_sb_append(&output, (char *)scratch_buf, n_read_bytes)
BlockOutput(out, buf, n_read_bytes) == out \o Take(buf, n_read_bytes)

\* The read of the child's output, close(pipes[1][0]), the append to the
\* output and hgl_sb_destroy(&source_code).
ParentRead ==
    /\ pc = "read"
    /\ LET n == ReadCount(pipe_out)
           buf == [i \in 1..ScratchSize |->
                      IF i <= n THEN pipe_out[i] ELSE scratch_buf[i]]
       IN
        /\ scratch_buf' = buf
        /\ pipe_out' = Drop(pipe_out, n)
        /\ output' = BlockOutput(output, buf, n)
    /\ fds' = fds \ {"out_r"}
    /\ source_code' = <<>>
    /\ pc' = "scan"
    /\ UNCHANGED << input, opt_embed_delim, exit_status, error, stdout,
                    directive, n_written_bytes, pipe_in, child, wstatus >>

(***************************************************************************)
(* The child                                                               *)
(***************************************************************************)
\* The child closes the ends it does not use, makes the other two its
\* standard input and output, and execvp starts the interpreter, which
\* will write one of ChildOutputs, and either reads all of its input or
\* does not.
ChildExec ==
    /\ child.state = "forked"
    /\ \E out \in ChildOutputs, reader \in BOOLEAN :
        child' = [child EXCEPT !.state = "running", !.out = out, !.todo = out,
                               !.reader = reader, !.fds = {"in_r", "out_w"}]
    /\ UNCHANGED << input, output, scratch_buf, opt_embed_delim, pc, exit_status,
                    error, stdout, directive, source_code, n_written_bytes, fds,
                    pipe_in, pipe_out, wstatus >>

\* execvp fails: the child prints a diagnostic and calls exit(1).
ChildExecFails ==
    /\ child.state = "forked"
    /\ child' = [child EXCEPT !.state = "exited", !.fds = {}]
    /\ wstatus' = W_EXITCODE(1, 0)
    /\ UNCHANGED << input, output, scratch_buf, opt_embed_delim, pc, exit_status,
                    error, stdout, directive, source_code, n_written_bytes, fds,
                    pipe_in, pipe_out >>

\* The interpreter reads even while its write is blocked.
ChildRead_Unblocked ==
    /\ child.state = "running"
    /\ pipe_in # <<>>
    /\ child' = [child EXCEPT !.stdin = child.stdin \o pipe_in]
    /\ pipe_in' = <<>>
    /\ UNCHANGED << input, output, scratch_buf, opt_embed_delim, pc, exit_status,
                    error, stdout, directive, source_code, n_written_bytes, fds,
                    pipe_out, wstatus >>

\* The interpreter reads what is in the pipe; it cannot while a write
\* blocks it.
ChildRead ==
    /\ child.state = "running"
    /\ ~child.writing
    /\ pipe_in # <<>>
    /\ child' = [child EXCEPT !.stdin = child.stdin \o pipe_in]
    /\ pipe_in' = <<>>
    /\ UNCHANGED << input, output, scratch_buf, opt_embed_delim, pc, exit_status,
                    error, stdout, directive, source_code, n_written_bytes, fds,
                    pipe_out, wstatus >>

\* The interpreter writes its output, as much of it as the pipe has room
\* for; the write blocks it until the pipe has taken all of it.
ChildWrite ==
    /\ child.state = "running"
    /\ child.todo # <<>>
    /\ LET n == Min(PipeCap - Len(pipe_out), Len(child.todo)) IN
        /\ n > 0
        /\ pipe_out' = pipe_out \o Take(child.todo, n)
        /\ child' = [child EXCEPT !.todo = Drop(child.todo, n),
                                  !.writing = (n < Len(child.todo))]
    /\ UNCHANGED << input, output, scratch_buf, opt_embed_delim, pc, exit_status,
                    error, stdout, directive, source_code, n_written_bytes, fds,
                    pipe_in, wstatus >>

\* A read of the interpreter's standard input returns 0, the end of input:
\* the pipe is empty and the parent, the only other holder of its write
\* end, has closed it.
EndOfInput == pipe_in = <<>> /\ "in_w" \notin fds

\* The interpreter exits, with all of its output written; a reader exits
\* once it has read the end of its input.
ChildExit ==
    /\ child.state = "running"
    /\ child.todo = <<>>
    /\ child.reader => EndOfInput
    /\ \E code \in 0..MaxExitCode : wstatus' = W_EXITCODE(code, 0)
    /\ child' = [child EXCEPT !.state = "exited", !.fds = {}]
    /\ UNCHANGED << input, output, scratch_buf, opt_embed_delim, pc, exit_status,
                    error, stdout, directive, source_code, n_written_bytes, fds,
                    pipe_in, pipe_out >>

\* The interpreter is killed by a signal.
ChildKilled ==
    /\ child.state = "running"
    /\ wstatus' = W_EXITCODE(0, SIGKILL)
    /\ child' = [child EXCEPT !.state = "exited", !.fds = {}]
    /\ UNCHANGED << input, output, scratch_buf, opt_embed_delim, pc, exit_status,
                    error, stdout, directive, source_code, n_written_bytes, fds,
                    pipe_in, pipe_out >>

\* printf(HGL_SB_FMT "\n", HGL_SB_ARG(output)); return 0;
Finish ==
    /\ pc = "scan"
    /\ input = <<>>
    /\ stdout' = stdout \o output \o <<NL>>
    /\ pc' = "done"
    /\ exit_status' = 0
    /\ UNCHANGED << input, output, scratch_buf, opt_embed_delim, error, bridge >>

Next ==
    \/ CopyLine
    \/ OtherDirective
    \/ SizeofDirective
    \/ EmbedDirective
    \/ IncludeDirective
    \/ BlockCollect
    \/ Fork
    \/ ParentCloseUnused
    \/ ParentWrite
    \/ ParentCloseIn
    \/ ParentWait
    \/ ParentRead
    \/ ChildExec
    \/ ChildExecFails
    \/ ChildRead
    \/ ChildWrite
    \/ ChildExit
    \/ ChildKilled
    \/ Finish

Spec == Init /\ [][Next]_vars

(***************************************************************************)
(* Properties                                                              *)
(***************************************************************************)
\* The scanner is about to take a line, and the step takes it.
ScansLine == pc = "scan" /\ input # <<>> /\ input' # input

\* The line the scanner is about to take: its bytes, its first token and
\* the tokens after it, and the template after the line.
CurLine == NextLine(input).line
CurToken == SplitDirective(NextLine(input).tokens).directive
CurArgs == SplitDirective(NextLine(input).tokens).tokens
CurRest == NextLine(input).input

Keywords == { KwEmbed, KwInclude, KwSizeof, KwBash, KwPython, KwPerl }

RECURSIVE LinesOf(_)
\* The lines of a text.
LinesOf(text) ==
    IF text = <<>> THEN <<>>
    ELSE LET i == IndexOf(text, NL) IN
         IF i = 0 THEN <<text>>
         ELSE <<Take(text, i - 1)>> \o LinesOf(Drop(text, i))

\* C1: a line whose first non-whitespace character is the marker and whose
\* first token is no keyword is appended to the output unchanged, with a
\* newline, without an error, and the scan goes on.
C1_UnknownPassedThrough ==
    [][ (ScansLine /\ hgl_sv_starts_with(hgl_sv_ltrim(CurLine), Marker)
                   /\ CurToken \notin Keywords)
        => (/\ output' = output \o CurLine \o <<NL>>
            /\ pc' = "scan"
            /\ error' = NoError) ]_vars

\* The index of the first line that is exactly @end after left-trimming,
\* or 0.
FirstEndLine(ls) ==
    IF \E i \in 1..Len(ls) : hgl_sv_ltrim(ls[i]) = KwEnd
    THEN CHOOSE i \in 1..Len(ls) :
            /\ hgl_sv_ltrim(ls[i]) = KwEnd
            /\ \A j \in 1..(i - 1) : hgl_sv_ltrim(ls[j]) # KwEnd
    ELSE 0

\* C2: a block that an @end line closes is executed, wherever the @end line
\* is, the last line of the template included: the scan of its opening
\* line ends in the fork, never in the missing-@end error.
C2_ClosedBlockRuns ==
    [][ (ScansLine /\ CurToken \in {KwBash, KwPython, KwPerl}
                   /\ FirstEndLine(LinesOf(CurRest)) # 0)
        => (pc' = "fork" /\ error' = NoError) ]_vars

\* Some line of the text begins, after left-trimming, with @end.
SomeLineEnds(text) ==
    \E i \in 1..Len(LinesOf(text)) :
        LET t == hgl_sv_ltrim(LinesOf(text)[i])
        IN  Len(t) >= 4 /\ SubSeq(t, 1, 4) = KwEnd

ExactBody(text) ==
    LET ls == LinesOf(text)
    IN  Join(SubSeq(ls, 1, FirstEndLine(ls) - 1))

\* C4: the script body is the raw lines between the opening line and the
\* first later line that is exactly @end after left-trimming; a line that
\* only begins with @end is part of the body.
C4_BodyUpToExactEnd ==
    [][ (ScansLine /\ pc' = "fork") => source_code' = ExactBody(CurRest) ]_vars

\* The child has ended with a non-zero exit code.
ChildFailed ==
    /\ child.state \in {"exited", "reaped"}
    /\ \E code \in 1..255 : wstatus = code * 256

\* C5: once the child has exited with a non-zero status nothing is appended
\* to the output, the parent never gets to read the child's output or to
\* scan on, and its wait ends the run with a non-zero status.
C5_NonZeroExitAborts ==
    [][ ChildFailed
        => (/\ output' = output
            /\ stdout' = <<>>
            /\ pc' \in {"close_unused", "write", "close_in", "wait",
                        "failed", "killed"}
            /\ (pc = "wait" /\ pc' # "wait"
                    => pc' = "failed" /\ error'.kind = "ChildExit")
            /\ (pc' \in {"failed", "killed"} => exit_status' > 0)) ]_vars

\* A child that wrote output and exited with status 2 has failed the run,
\* and its output is still in the pipe.
C5_Witness ==
    /\ pc = "failed"
    /\ error.kind = "ChildExit"
    /\ wstatus = 2 * 256
    /\ pipe_out = S(<<"h","i","\n">>)
    /\ output = <<>>

\* The path token of the line the scanner is about to take, and the tokens
\* after it.
CurPath == hgl_sv_lchop_until(CurArgs, SP).chopped
CurTail == hgl_sv_lchop_until(CurArgs, SP).sv

\* C6: @include of a readable file appends exactly the bytes of the file,
\* and the scan goes on with the line after the directive: the included
\* bytes are not scanned and start no handler.
C6_IncludeVerbatim ==
    [][ (ScansLine /\ CurToken = KwInclude /\ FileExists(CurPath))
        => (/\ output' = output \o FileData(CurPath)
            /\ input' = CurRest
            /\ pc' = "scan"
            /\ error' = NoError
            /\ child' = child /\ fds' = fds) ]_vars

\* The template "@include g" is expanded to the bytes of g, which holds
\* lines that begin with @embed and @end.
C6_Witness ==
    /\ pc = "done"
    /\ stdout = FileData(S(<<"g">>)) \o <<NL>>
    /\ SomeLineEnds(stdout)

\* C7: @include of a file that cannot be read fails the run with a non-zero
\* status, and no expanded document is written.
C7_IncludeUnreadableFails ==
    [][ (ScansLine /\ CurToken = KwInclude /\ ~FileExists(CurPath))
        => (pc' = "failed" /\ exit_status' > 0 /\ stdout' = <<>>) ]_vars

\* The bytes a step has appended to the output.
Appended == Drop(output', Len(output))

\* s is the decimal representation of n: digits only, no leading zero, and
\* the value n.
IsDecimalOf(s, n) ==
    /\ s # <<>>
    /\ \A i \in 1..Len(s) : IsDigit(s[i])
    /\ (Len(s) > 1 => s[1] # 48)
    /\ DigitsValue(s, 0) = n

\* C8, as claimed: @sizeof of a file that can be opened appends the decimal
\* size, a space and the rest of the line, with nothing before the number.
C8_SizeofNothingBefore ==
    [][ (ScansLine /\ CurToken = KwSizeof /\ FileExists(CurPath))
        => \E n \in 1..Len(Appended) :
            /\ Take(output', Len(output)) = output
            /\ IsDecimalOf(Take(Appended, n), Len(FileData(CurPath)))
            /\ Drop(Appended, n) = <<SP>> \o CurTail \o <<NL>> ]_vars

\* C8, amended: @sizeof of a file that can be opened appends four spaces,
\* the decimal size, a space, the rest of the line after the path token,
\* and a newline.
C8_SizeofText ==
    [][ (ScansLine /\ CurToken = KwSizeof /\ FileExists(CurPath))
        => \E n \in 1..(Len(Appended) - 4) :
            /\ Take(output', Len(output)) = output
            /\ Take(Appended, 4) = <<SP, SP, SP, SP>>
            /\ IsDecimalOf(SubSeq(Appended, 5, 4 + n), Len(FileData(CurPath)))
            /\ Drop(Appended, 4 + n) = <<SP>> \o CurTail \o <<NL>>
            /\ pc' = "scan" /\ error' = NoError ]_vars

\* "@sizeof t" and "@sizeof f rest x" are expanded, t being 20 bytes long
\* and f 2 bytes.
C8_Witness ==
    /\ pc = "done"
    /\ stdout = S(<<" "," "," "," ","2","0"," ","\n",
                    " "," "," "," ","2"," ","r","e","s","t"," ","x","\n","\n">>)

IsHex(c) == IsDigit(c) \/ (c >= 65 /\ c <= 70)
HexValue(c) == IF IsDigit(c) THEN c - 48 ELSE c - 55

RECURSIVE TokenBytes(_)
\* The bytes that the tokens 0xHH of a text stand for, in order.
TokenBytes(text) ==
    IF Len(text) < 4 THEN <<>>
    ELSE IF /\ text[1] = 48 /\ text[2] = 120
            /\ IsHex(text[3]) /\ IsHex(text[4])
         THEN <<16 * HexValue(text[3]) + HexValue(text[4])>>
              \o TokenBytes(Drop(text, 4))
         ELSE TokenBytes(Tail(text))

\* The scanner is about to expand an @embed line that is well formed and
\* names a file that can be opened.
EmbedsFile ==
    /\ ScansLine /\ CurToken = KwEmbed
    /\ FileExists(CurPath)
    /\ EmbedLimit(CurTail).ok

\* C9: @embed F limit(N) emits min(size(F), N) byte tokens, the i-th of
\* them the i-th byte of F, and no token of a byte that was not read from
\* F.
C9_EmbedTokensFromFile ==
    [][ (EmbedsFile /\ hgl_sv_starts_with(hgl_sv_ltrim(CurTail), KwLimit))
        => TokenBytes(output') =
            TokenBytes(output)
            \o Take(FileData(CurPath),
                    Min(Len(FileData(CurPath)), EmbedLimit(CurTail).limit)) ]_vars

\* The index after the last token 0xHH of a text, or 0 without a token.
AfterLastToken(text) ==
    LET at == { i \in 1..(Len(text) - 3) :
                  /\ text[i] = 48 /\ text[i + 1] = 120
                  /\ IsHex(text[i + 2]) /\ IsHex(text[i + 3]) }
    IN  IF at = {} THEN 0
        ELSE (CHOOSE i \in at : \A j \in at : j <= i) + 4

\* C10: the text that @embed emits has no delimiter after its last byte
\* token, and its final trim removes neither indentation nor bytes that
\* were in the output before: the output from before is a prefix of the
\* output after, and every line emitted begins with the four spaces.
C10_EmbedTrim ==
    [][ EmbedsFile
        => (/\ Len(output') >= Len(output)
            /\ Take(output', Len(output)) = output
            /\ \A i \in 1..Len(LinesOf(Appended)) :
                  hgl_sv_starts_with(LinesOf(Appended)[i], <<SP, SP, SP, SP>>)
            /\ (opt_embed_delim # <<>> /\ AfterLastToken(Appended) # 0
                  => ~hgl_sv_starts_with(
                         Drop(Appended, AfterLastToken(Appended) - 1),
                         opt_embed_delim))) ]_vars

\* Some handler fails at the step: a path that does not fit, a file that
\* cannot be opened, a limit( without its ")", a block without its @end,
\* or a child that the wait finds to have exited with a non-zero status.
HandlerFails ==
    \/ /\ ScansLine /\ CurToken \in {KwSizeof, KwEmbed, KwInclude}
       /\ \/ Len(CurPath) >= PathSlot
          \/ ~FileExists(CurPath)
          \/ CurToken = KwEmbed /\ ~EmbedLimit(CurTail).ok
    \/ /\ ScansLine /\ CurToken \in {KwBash, KwPython, KwPerl}
       /\ ~SomeLineEnds(CurRest)
    \/ pc = "wait" /\ pc' # "wait" /\ ChildFailed

\* C11: the expanded document is written to the standard output once, when
\* the whole template has been scanned and no handler has failed; a step
\* at which a handler fails ends the run with a non-zero status and with
\* nothing on the standard output.
C11_OutputOnlyOnSuccess ==
    [][ /\ (stdout' # stdout
              => /\ stdout = <<>> /\ input = <<>> /\ error = NoError
                 /\ pc' = "done" /\ exit_status' = 0)
        /\ (HandlerFails
              => pc' = "failed" /\ exit_status' > 0 /\ stdout' = <<>>) ]_vars

\* The parent has a child that it has not reaped.
ChildLives == child.state \in {"forked", "running", "exited"}

\* C12: the scanner takes a line only when no child is left from an
\* earlier directive; a non-directive line adds its own bytes and a
\* newline to the output, and a directive adds its handler's result behind
\* what the earlier lines have added.
C12_SequentialConcatenation ==
    [][ ScansLine
        => (/\ ~ChildLives
            /\ pc' \in {"scan", "fork"}
                 => IF CurToken \in Keywords
                    THEN /\ Len(output') >= Len(output)
                         /\ Take(output', Len(output)) = output
                    ELSE output' = output \o CurLine \o <<NL>>) ]_vars

\* The line the scanner is about to take without its leading whitespace,
\* and the keyword, the path token and the tokens after it of that line.
Stripped == hgl_sv_ltrim(hgl_sv_lchop_until(input, NL).chopped)
StrippedToken == hgl_sv_lchop_until(Stripped, SP).chopped
StrippedArgs == hgl_sv_lchop_until(Stripped, SP).sv
StrippedPath == hgl_sv_lchop_until(StrippedArgs, SP).chopped
StrippedTail == hgl_sv_lchop_until(StrippedArgs, SP).sv

\* The line the scanner is about to take has whitespace before a directive.
IndentedDirective ==
    /\ pc = "scan" /\ input # <<>> /\ input' # input
    /\ Stripped # hgl_sv_lchop_until(input, NL).chopped
    /\ StrippedToken \in Keywords

\* What the directive line L does when it is scanned with the output out
\* and the scratch buffer buf: the handler of its keyword, with its path
\* and the tokens after it, or with the text after the line as the block.
DoesAs(L, rest, out, buf, delim) ==
    LET kw == hgl_sv_lchop_until(L, SP).chopped
        args == hgl_sv_lchop_until(L, SP).sv
        path == hgl_sv_lchop_until(args, SP).chopped
        tail == hgl_sv_lchop_until(args, SP).sv
        fits == Len(path) < PathSlot
        stored == StorePath(buf, path)
        size == EmbedFileSize(Ftell(path), EmbedLimit(tail).limit)
    IN  IF kw = KwSizeof THEN
            IF fits /\ FileExists(path)
            THEN /\ output' = out \o SizeofText(StatSize(path), tail)
                 /\ pc' = "scan" /\ input' = rest
            ELSE pc' = "failed" /\ output' = out
        ELSE IF kw = KwInclude THEN
            IF fits
            THEN /\ output' = IncludeOutput(out, stored)
                 /\ pc' = "scan" /\ input' = rest
            ELSE pc' = "failed" /\ output' = out
        ELSE IF kw = KwEmbed THEN
            IF fits /\ FileExists(path) /\ EmbedLimit(tail).ok
            THEN size <= ScratchSize
                   => /\ output' = EmbedOutput(out,
                                       Fread(stored, FileData(path), size),
                                       size, delim)
                      /\ pc' = "scan" /\ input' = rest
            ELSE pc' = "failed" /\ output' = out
        ELSE /\ output' = out
             /\ directive' = kw
             /\ source_code' = CollectBody(rest, <<>>).source_code
             /\ input' = CollectBody(rest, <<>>).input
             /\ pc' = IF BlockTerminated(CollectBody(rest, <<>>).input)
                      THEN "fork" ELSE "failed"

\* C13: a directive line with spaces and tabs before it selects the
\* handler, with the arguments, and appends the output, of the line without
\* them.
C13_LeadingWhitespace ==
    [][ IndentedDirective
        => DoesAs(Stripped, hgl_sv_lchop_until(input, NL).sv,
                  output, scratch_buf, opt_embed_delim) ]_vars

\* The template " @sizeof e " is expanded as "@sizeof e " is: e is empty,
\* and nothing follows the path.
C13_Witness ==
    /\ pc = "done"
    /\ stdout = S(<<" "," "," "," ","0"," ","\n","\n">>)
    /\ scratch_buf[1] = Ord("e")

TAB == Ord("\t")

\* The index of the first space or tab of a text, or 0.
FirstBlank(text) ==
    IF \E i \in 1..Len(text) : text[i] \in {SP, TAB}
    THEN CHOOSE i \in 1..Len(text) :
            /\ text[i] \in {SP, TAB}
            /\ \A j \in 1..(i - 1) : text[j] \notin {SP, TAB}
    ELSE 0

\* The first token of the stripped line as the grammar delimits it, by a
\* space, a tab or the end of the line, and the text after the delimiter.
GrammarToken ==
    IF FirstBlank(Stripped) = 0 THEN Stripped
    ELSE Take(Stripped, FirstBlank(Stripped) - 1)
GrammarArgs ==
    IF FirstBlank(Stripped) = 0 THEN <<>>
    ELSE Drop(Stripped, FirstBlank(Stripped))

\* C14: a line is given to a directive handler exactly when its first
\* token, which a space, a tab or the end of the line ends, is one of the
\* six keywords: then the handler of the keyword acts on the text after
\* the delimiter, and otherwise no handler acts, no path is stored, nothing
\* fails and no child is made.
C14_DirectiveGrammar ==
    [][ (pc = "scan" /\ input # <<>> /\ input' # input)
        => IF GrammarToken \in Keywords
           THEN DoesAs(GrammarToken \o <<SP>> \o GrammarArgs,
                       hgl_sv_lchop_until(input, NL).sv,
                       output, scratch_buf, opt_embed_delim)
           ELSE /\ pc' = "scan" /\ error' = NoError
                /\ scratch_buf' = scratch_buf
                /\ input' = hgl_sv_lchop_until(input, NL).sv
                /\ child' = child /\ fds' = fds ]_vars

\* C15: the output accumulator only grows: what it holds before a step is
\* a prefix of what it holds after the step, for every handler and every
\* delimiter.
C15_OutputOnlyGrows ==
    [][ /\ Len(output') >= Len(output)
        /\ SubSeq(output', 1, Len(output)) = output ]_vars

\* The @embed line the scanner is about to take has a limit(N).
HasLimit == hgl_sv_starts_with(hgl_sv_ltrim(CurTail), KwLimit)

\* The number of bytes the @embed line asks for: the limit when it has
\* one and the file is not shorter, the whole file otherwise; a special
\* file has bytes without end.
EmbedWanted ==
    LET size == IF FileIsSpecial(CurPath) THEN ScratchSize + 1
                ELSE Len(FileData(CurPath))
    IN  IF HasLimit THEN Min(size, EmbedLimit(CurTail).limit) ELSE size

\* C16: an @embed reads into, and indexes in, the scratch buffer no more
\* bytes than the buffer holds, whatever the limit and the size of the
\* file, and content that is larger than the buffer fails the run with an
\* error: it is not cut to the size of the buffer.
C16_ScratchCapacity ==
    [][ EmbedsFile
        => (/\ Len(TokenBytes(output')) - Len(TokenBytes(output)) <= ScratchSize
            /\ EmbedFileSize(Ftell(CurPath), EmbedLimit(CurTail).limit)
                   <= ScratchSize
            /\ (EmbedWanted > ScratchSize
                   => /\ pc' = "failed" /\ exit_status' > 0
                      /\ error' # NoError /\ output' = output)) ]_vars

\* C17: the parent closes the two pipe ends it does not use, writes the
\* whole script body, closes the write end of the input pipe, waits for
\* the child, tests its exit status, reads the output pipe and closes it,
\* in this order; while it waits the write end of the input pipe is
\* closed, in the parent and in the interpreter, so that the interpreter
\* can see the end of its input.
C17_ParentStepOrder ==
    [][ /\ (pc = "fork" /\ pc' # pc
              => pc' = "close_unused" /\ fds' = PipeEnds)
        /\ (pc = "close_unused" /\ pc' # pc
              => pc' = "write" /\ fds' = {"in_w", "out_r"})
        /\ (pc = "write" /\ pc' # pc
              => /\ pc' \in {"close_in", "killed"}
                 /\ fds' = {"in_w", "out_r"}
                 /\ (pc' = "close_in" => n_written_bytes = Len(source_code)))
        /\ (pc = "close_in" /\ pc' # pc
              => pc' = "wait" /\ fds' = {"out_r"})
        /\ (pc' = "wait"
              => /\ "in_w" \notin fds'
                 /\ n_written_bytes' = Len(source_code')
                 /\ (child'.state = "running" => "in_w" \notin child'.fds))
        /\ (pc = "wait" /\ pc' # pc
              => /\ child.state = "exited" /\ child'.state = "reaped"
                 /\ pc' = IF WEXITSTATUS(wstatus) = 0 THEN "read" ELSE "failed"
                 /\ fds' = {"out_r"}
                 /\ pipe_out' = pipe_out /\ output' = output)
        /\ (pc = "read" /\ pc' # pc
              => pc' = "scan" /\ fds' = {} /\ child.state = "reaped") ]_vars

\* The parent waits with the whole body written and the input pipe
\* closed, and the interpreter, still running, has read all of a body
\* that is longer than the pipe.
C17_Witness ==
    /\ pc = "wait"
    /\ "in_w" \notin fds
    /\ child.state = "running"
    /\ child.stdin = source_code
    /\ Len(source_code) > PipeCap
    /\ pipe_in = <<>>

\* The parent is blocked in its write to the full input pipe, with body
\* left to write, and the interpreter is blocked in a write to the full
\* output pipe, with output left to write.
PipeDeadlock ==
    /\ pc = "write"
    /\ n_written_bytes < Len(source_code)
    /\ Len(pipe_in) = PipeCap
    /\ child.state = "running"
    /\ child.writing /\ child.todo # <<>>
    /\ Len(pipe_out) = PipeCap

\* C18: with pipes of bounded capacity the pipe deadlock is reached, and
\* from it neither process makes progress: the parent writes nothing and
\* stays in its write, the interpreter reads and writes nothing, and the
\* only step left is the end of the interpreter by a signal from outside.
C18_PipeDeadlockIsStable ==
    [][ PipeDeadlock
        => (/\ pc' = "write" /\ n_written_bytes' = n_written_bytes
            /\ pipe_in' = pipe_in /\ pipe_out' = pipe_out
            /\ output' = output /\ fds' = fds
            /\ child'.stdin = child.stdin /\ child'.todo = child.todo
            /\ (child' # child
                  => /\ child'.state = "exited"
                     /\ wstatus' = W_EXITCODE(0, SIGKILL))) ]_vars

\* The deadlock after the interpreter has filled the output pipe, before
\* reading any of its input, with the first bytes of "long output\n".
C18_Witness ==
    /\ PipeDeadlock
    /\ child.stdin = <<>>
    /\ child.out = S(<<"l","o","n","g"," ","o","u","t","p","u","t","\n">>)
    /\ pipe_in = Take(source_code, PipeCap)

\* The bytes of a text that one capture can hold: all of it, or its first
\* sizeof(scratch_buf) - 1 bytes.
Captured(text) == Take(text, Min(Len(text), ScratchSize - 1))

\* C19: when the child has exited with status 0 the read appends to the
\* output exactly what the child has written to its standard output, cut
\* to the capture size when it is longer, and raises no error.
C19_CapturedOutput ==
    [][ (pc = "read" /\ pc' # pc /\ wstatus = W_EXITCODE(0, 0))
        => (/\ output' = output \o Captured(child.out)
            /\ pc' = "scan"
            /\ error' = NoError) ]_vars

\* The output "hi\n" of a child that has exited with status 0 is in the
\* accumulator, behind the text of an earlier line.
C19_Witness ==
    /\ pc = "scan"
    /\ child.state = "reaped"
    /\ wstatus = W_EXITCODE(0, 0)
    /\ child.out = S(<<"h","i","\n">>)
    /\ Len(output) > 3
    /\ Drop(output, Len(output) - 3) = child.out

\* Other contents the scratch buffer could have when a handler starts.
ScratchAlternatives ==
    { [i \in 1..ScratchSize |-> 0], [i \in 1..ScratchSize |-> 255] }

\* C20: what a handler appends to the output does not depend on what the
\* scratch buffer holds when the handler starts: with other contents of
\* the buffer the directive line, and the read of a block's output, give
\* the same output.
C20_ScratchCarriesNoState ==
    [][ \A alt \in ScratchAlternatives :
          /\ (ScansLine /\ CurToken \in Keywords)
                => DoesAs(Stripped, CurRest, output, alt, opt_embed_delim)
          /\ (pc = "read" /\ pc' # pc)
                => output' = BlockOutput(output,
                                [i \in 1..ScratchSize |->
                                    IF i <= ReadCount(pipe_out)
                                    THEN pipe_out[i] ELSE alt[i]],
                                ReadCount(pipe_out)) ]_vars

\* WIFSIGNALED(status): the child was ended by a signal.
WIFSIGNALED(status) == status % 128 # 0

\* C21: the output of a block's child is appended only when the child has
\* ended normally with exit status 0; when the wait finds a child that a
\* signal has ended, the run fails and nothing is appended.
C21_SignalledChildAborts ==
    [][ /\ (pc = "wait" /\ pc' # pc /\ WIFSIGNALED(wstatus))
              => (/\ pc' = "failed" /\ exit_status' > 0
                  /\ error' # NoError /\ output' = output)
        /\ (pc = "read" /\ output' # output)
              => wstatus = W_EXITCODE(0, 0) ]_vars

(***************************************************************************)
(* Fairness: the parent and the interpreter are processes that the         *)
(* operating system keeps running; a step of either that stays possible is *)
(* taken.  Signals from outside and a failing execvp are not bound to      *)
(* happen.                                                                 *)
(***************************************************************************)
ParentStep ==
    \/ Fork \/ ParentCloseUnused \/ ParentWrite
    \/ ParentCloseIn \/ ParentWait \/ ParentRead

FairSpec ==
    /\ Init /\ [][Next]_vars
    /\ WF_vars(ParentStep)
    /\ WF_vars(ChildExec) /\ WF_vars(ChildRead)
    /\ WF_vars(ChildWrite) /\ WF_vars(ChildExit)

\* The parent is in the round trip with an interpreter that reads its
\* input to the end and whose output fits into the output pipe.
ReaderRoundTrip ==
    /\ pc \in {"close_unused", "write", "close_in", "wait", "read"}
    /\ child.state = "running"
    /\ child.reader
    /\ Len(child.out) <= PipeCap

\* The parent has returned from write, wait and read: it scans on, or the
\* assertion on the exit status has ended the run.
RoundTripDone == pc \in {"scan", "failed", "done"}

\* C22: under fairness the round trip with a child that reads its input to
\* the end and then exits, and whose output fits into the output pipe, is
\* completed, whatever the length of the script body, unless a signal from
\* outside ends the child.
C22_RoundTripCompletes ==
    ReaderRoundTrip
        ~> (RoundTripDone \/ (child.state # "running" /\ WIFSIGNALED(wstatus)))

\* A round trip is completed with a reader that has read a body longer
\* than the input pipe and has exited with status 0.
C22_Witness ==
    /\ pc = "scan"
    /\ child.state = "reaped" /\ child.reader
    /\ wstatus = W_EXITCODE(0, 0)
    /\ Len(child.stdin) > PipeCap
    /\ child.out # <<>>
    /\ Len(output) >= Len(child.out)
    /\ Drop(output, Len(output) - Len(child.out)) = child.out

====
